---- MODULE Spec2Model ----
(***************************************************************************)
(* Booking / inventory consistency and ticket verification of the event    *)
(* ticketing platform.  The persistent state is the Prisma/MongoDB data    *)
(* (events, ticket types, bookings, tickets); every HTTP request handler   *)
(* is a process that runs in one request slot.  Each `await` on the        *)
(* database is one atomic step, a `prisma.$transaction` is one atomic      *)
(* step that either commits all of its writes or none.                     *)
(***************************************************************************)
EXTENDS Integers, Sequences, FiniteSets, TLC

\* ---------------------------------------------------------------- bounds
MaxItems == 2      \* longest `tickets` list of a booking request
MaxQty == 2        \* largest quantity of one ticket item
InitQuantity == 2  \* capacity the first seeded ticket type starts with
MaxTime == 3       \* last instant of the wall clock

\* ------------------------------------------------------------ vocabulary
Null == 0          \* a null / undefined / absent value (ids and instants start at 1)

Slots == {1, 2, 3, 4}        \* request slots: one request runs in each
Users == {1, 2}              \* session user ids; user 2 is staff
EventIds == {1, 2, 3}        \* seeded events: 1 and 2 published, 3 a draft
TypeIds == {1, 2}            \* seeded ticket types, both of event 1
NoSuchId == 99               \* an id no row has

BookingStatus == {"PENDING", "CONFIRMED", "CANCELLED", "REFUNDED"}

VARIABLES
    now,          \* wall clock (new Date())
    events,       \* Event rows, by id
    ticketTypes,  \* TicketType rows, by id
    bookings,     \* Booking rows, by id (a sequence: the id is the index)
    tickets,      \* Ticket rows, by id (a sequence: the id is the index)
    op,           \* per slot: the handler that runs in it
    pc,           \* per slot: the position of the handler
    session,      \* per slot: session.user.id (Null: not signed in)
    data,         \* per slot: the request body / path parameters
    local,        \* per slot: the handler's local constants
    response,     \* per slot: the response returned (status Null: none yet)
    outbox        \* the bookings whose confirmation email sendEmail has sent

dbvars == <<events, ticketTypes, bookings, tickets>>
reqvars == <<op, pc, session, data, local, response>>
vars ==
    <<now, events, ticketTypes, bookings, tickets, op, pc, session, data, local, response,
      outbox>>

\* ----------------------------------------------------------- collaborators
\* checkPermission(name) for the session user: user 2 holds every capability,
\* user 1 none.
checkPermission(u, name) == u = 2

\* ----------------------------------------------------------------- helpers
NoResponse ==
    [status |-> Null, message |-> "", valid |-> FALSE, ticket |-> Null, detail |-> Null,
     bookingStatus |-> ""]
NoLocal == [none |-> TRUE]

\* NextResponse.json({ message }, { status })
Reply(st, msg) == [NoResponse EXCEPT !.status = st, !.message = msg]
\* ... with the id (ticket type, booking) or instant the body names
ReplyWith(st, msg, d) == [NoResponse EXCEPT !.status = st, !.message = msg, !.detail = d]
\* NextResponse.json({ valid, message, ticket: { id, usedAt, status } }) of verify
Verdict(v, msg, t, d, bs) ==
    [status |-> 200, message |-> msg, valid |-> v, ticket |-> t, detail |-> d,
     bookingStatus |-> bs]

\* prisma.ticketType.findUnique({ where: { id } }) finds a row
TicketTypeExists(id) == id \in DOMAIN ticketTypes

\* prisma.booking.findUnique({ where: { id } }) finds a row
BookingExists(id) == id \in DOMAIN bookings

\* The ticket ids of a booking (include: { tickets }).
TicketsOfBooking(b) == {t \in DOMAIN tickets : tickets[t].bookingId = b}

\* ticketTypeCounts: the tickets of a booking grouped by ticket type.
TicketTypeCounts(b) ==
    [ty \in TypeIds |-> Cardinality({t \in TicketsOfBooking(b) : tickets[t].ticketTypeId = ty})]

\* The number of units a list of validated ticket items takes of one type.
RECURSIVE UnitsOf(_, _)
UnitsOf(items, ty) ==
    IF items = <<>> THEN 0
    ELSE (IF Head(items).ticketTypeId = ty THEN Head(items).quantity ELSE 0)
         + UnitsOf(Tail(items), ty)

\* `TKT-${nanoid(8)}`: the number minted for the ticket that gets id k.  A
\* number that collides with a stored one makes the transaction throw.
TicketNumber(k) == 100 + k

\* The ticket rows the transaction creates: item by item, quantity rows each.
RECURSIVE MintTickets(_, _, _)
MintTickets(items, bookingId, nextId) ==
    IF items = <<>> THEN <<>>
    ELSE [i \in 1..Head(items).quantity |->
             [ticketNumber |-> TicketNumber(nextId + i - 1),
              bookingId |-> bookingId,
              ticketTypeId |-> Head(items).ticketTypeId,
              usedAt |-> Null]]
         \o MintTickets(Tail(items), bookingId, nextId + Head(items).quantity)

\* The numbers nanoid may draw for the tickets of a list of items, up to the
\* choice of the fresh ones: all fresh (the numbers MintTickets writes), the
\* first one equal to the number of a stored ticket, or the second one equal
\* to the first.
GeneratedNumbers(items) ==
    LET rows == MintTickets(items, Len(bookings) + 1, Len(tickets) + 1)
        fresh == [i \in DOMAIN rows |-> rows[i].ticketNumber]
    IN  {fresh}
        \cup (IF tickets # <<>> THEN {[fresh EXCEPT ![1] = tickets[1].ticketNumber]} ELSE {})
        \cup (IF Len(fresh) >= 2 THEN {[fresh EXCEPT ![2] = fresh[1]]} ELSE {})

\* Ticket.ticketNumber @unique: the create of a row whose number is taken, by
\* a stored ticket or by an earlier row of the same transaction, throws.
MintThrows(nums) ==
    \/ \E i, j \in DOMAIN nums : i # j /\ nums[i] = nums[j]
    \/ \E i \in DOMAIN nums, t \in DOMAIN tickets : nums[i] = tickets[t].ticketNumber

\* tx.ticketType.update({ where: { id } }) of an item whose ticket type row is
\* gone (deleted with its event since the item was checked) throws.
DecrementThrows(items) == \E i \in DOMAIN items : ~TicketTypeExists(items[i].ticketTypeId)

\* A decrement of one per item, whatever its quantity.
DecrementOncePerItem(tts, items) ==
    [ty \in DOMAIN tts |->
        [tts[ty] EXCEPT !.remaining =
            @ - Cardinality({i \in DOMAIN items : items[i].ticketTypeId = ty})]]

\* remaining: { decrement: item.quantity } applied for every item of the list.
DecrementRemaining(tts, items) ==
    [ty \in DOMAIN tts |-> [tts[ty] EXCEPT !.remaining = @ - UnitsOf(items, ty)]]

\* A release that stops at quantity.
IncrementCapped(tts, counts) ==
    [ty \in DOMAIN tts |->
        [tts[ty] EXCEPT !.remaining =
            IF @ + counts[ty] > tts[ty].quantity THEN tts[ty].quantity ELSE @ + counts[ty]]]

\* A release that adds one per ticket type instead of one per ticket.
IncrementOncePerType(tts, counts) ==
    [ty \in DOMAIN tts |->
        [tts[ty] EXCEPT !.remaining = @ + (IF counts[ty] > 0 THEN 1 ELSE 0)]]

\* remaining: { increment: count } applied for every entry of ticketTypeCounts.
IncrementRemaining(tts, counts) ==
    [ty \in DOMAIN tts |-> [tts[ty] EXCEPT !.remaining = @ + counts[ty]]]

\* ---------------------------------------------------------------- initial
\* Three events that start at instant MaxTime - 1: event 1, published, with
\* two ticket types created with remaining = quantity (type 2 has a single
\* ticket); event 2, published, without ticket types yet; event 3, a draft
\* (isPublished false).  No booking yet, no request yet.
Init ==
    /\ now = 1
    /\ events = [e \in EventIds |->
                    [isPublished |-> e # 3, startDate |-> MaxTime - 1, creatorId |-> 2]]
    /\ ticketTypes = [ty \in TypeIds |->
                        [eventId |-> 1, price |-> ty,
                         quantity |-> IF ty = 1 THEN InitQuantity ELSE 1,
                         remaining |-> IF ty = 1 THEN InitQuantity ELSE 1]]
    /\ bookings = <<>>
    /\ tickets = <<>>
    /\ op = [p \in Slots |-> "idle"]
    /\ pc = [p \in Slots |-> "idle"]
    /\ session = [p \in Slots |-> Null]
    /\ data = [p \in Slots |-> NoLocal]
    /\ local = [p \in Slots |-> NoLocal]
    /\ response = [p \in Slots |-> NoResponse]
    /\ outbox = {}

\* The handler of slot p returns r: of the invocation only the response stays.
Return(p, r) ==
    /\ pc' = [pc EXCEPT ![p] = "done"]
    /\ response' = [response EXCEPT ![p] = r]
    /\ session' = [session EXCEPT ![p] = Null]
    /\ data' = [data EXCEPT ![p] = NoLocal]
    /\ local' = [local EXCEPT ![p] = NoLocal]

\* The handler of slot p goes on at position l with locals loc.
Goto(p, l, loc) ==
    /\ pc' = [pc EXCEPT ![p] = l]
    /\ local' = [local EXCEPT ![p] = loc]
    /\ UNCHANGED response

\* The handler of slot p goes on at position l with locals loc, the same request.
Continue(p, l, loc) == Goto(p, l, loc) /\ UNCHANGED <<session, data>>

\* The clock advances.
Tick ==
    /\ now < MaxTime
    /\ now' = now + 1
    /\ UNCHANGED <<dbvars, reqvars, outbox>>

\* ------------------------------------------- POST /api/bookings (createBooking)
\* Lines 79-89: what prisma.event.findUnique({ where: { id, isPublished: true }
\* }) makes the handler answer for event id e: the rejection, or status Null
\* when the event is found.
EventCheck(e) ==
    IF ~(e \in DOMAIN events /\ events[e].isPublished)
      THEN Reply(404, "Event not found or not published")
      ELSE NoResponse

\* Lines 60-89: session, body, required fields, event lookup.  Of the request
\* the slot keeps what the handler reads later: the user and eventId; the
\* items of a non-empty `tickets` are read by the loop.
CreateBookingStart(p) ==
    /\ pc[p] = "idle"
    /\ op' = [op EXCEPT ![p] = "createBooking"]
    /\ \E u \in Users \cup {Null} :
          IF u = Null
            THEN Return(p, Reply(401, "Unauthorized"))
          ELSE \E attendee \in BOOLEAN, empty \in BOOLEAN :
               IF ~attendee \/ empty
                 THEN Return(p, Reply(400, "Missing required fields"))
               ELSE \E e \in EventIds \cup {NoSuchId} :
                    IF EventCheck(e).status # Null
                      THEN Return(p, EventCheck(e))
                    ELSE /\ Goto(p, "check", [totalAmount |-> 0, ticketItems |-> <<>>])
                         /\ session' = [session EXCEPT ![p] = u]
                         /\ data' = [data EXCEPT ![p] = [eventId |-> e]]
    /\ UNCHANGED <<now, outbox, dbvars>>

\* The items a request may list: a known or unknown ticket type, a quantity
\* that may be missing (0).
TicketItemInputs == [ticketTypeId : TypeIds \cup {Null, NoSuchId}, quantity : 0..MaxQty]

\* The early returns of the loop body, lines 99-128.
ItemInvalid(item) == item.ticketTypeId = Null \/ item.quantity = 0 \/ item.quantity < 1
\* An availability check that lets one unit too many through.
ItemNotEnoughOffByOne(item) == ticketTypes[item.ticketTypeId].remaining < item.quantity - 1
ItemNotEnough(item) == ticketTypes[item.ticketTypeId].remaining < item.quantity

\* What one iteration answers for an item: the rejection, or status Null
\* when the item passes.
CheckItem(item) ==
    IF ItemInvalid(item)
      THEN Reply(400, "Invalid ticket information")
    ELSE IF ~TicketTypeExists(item.ticketTypeId)
      THEN ReplyWith(404, "Ticket type not found", item.ticketTypeId)
    ELSE IF ItemNotEnough(item)
      THEN ReplyWith(400, "Not enough tickets available", item.ticketTypeId)
    ELSE NoResponse

\* Lines 96-137: one iteration of the validation loop (one
\* ticketType.findUnique); the next item of `tickets` is read here, and
\* whether it is the last one (it is when the list is MaxItems long).
CreateBookingCheck(p) ==
    /\ pc[p] = "check"
    /\ \E item \in TicketItemInputs, last \in BOOLEAN :
          IF CheckItem(item).status # Null
            THEN Return(p, CheckItem(item))
          ELSE LET items == Append(local[p].ticketItems,
                                   [ticketTypeId |-> item.ticketTypeId,
                                    quantity |-> item.quantity,
                                    price |-> ticketTypes[item.ticketTypeId].price])
                   total == local[p].totalAmount
                            + ticketTypes[item.ticketTypeId].price * item.quantity
               IN  Continue(p, IF last \/ Len(items) = MaxItems THEN "tx" ELSE "check",
                            [totalAmount |-> total, ticketItems |-> items])
    /\ UNCHANGED <<now, outbox, dbvars, op>>

\* The writes of the transaction, lines 146-180: the booking row (PENDING),
\* quantity ticket rows per item, one decrement per item.
CreateBookingWrites(p) ==
    LET id == Len(bookings) + 1
        items == local[p].ticketItems
    IN  /\ bookings' = Append(bookings,
                          [status |-> "PENDING", userId |-> session[p],
                           eventId |-> data[p].eventId,
                           totalAmount |-> local[p].totalAmount,
                           paymentId |-> Null])
        /\ tickets' = tickets \o MintTickets(items, id, Len(tickets) + 1)
        /\ ticketTypes' = DecrementRemaining(ticketTypes, items)
        /\ UNCHANGED events

\* Lines 144-184: prisma.$transaction with the numbers nanoid draws.  It
\* commits all its writes, or throws (a ticketNumber already taken, a ticket
\* type row that is gone, or the database failing), which rolls every write
\* back and ends in the catch of line 276.
CreateBookingTx(p) ==
    /\ pc[p] = "tx"
    /\ \/ \E nums \in GeneratedNumbers(local[p].ticketItems) :
             IF MintThrows(nums) \/ DecrementThrows(local[p].ticketItems)
               THEN /\ UNCHANGED dbvars
                    /\ Return(p, Reply(500, "Something went wrong"))
               ELSE /\ CreateBookingWrites(p)
                    /\ Continue(p, "confirm", [booking |-> Len(bookings) + 1])
       \/ /\ UNCHANGED dbvars
          /\ Return(p, Reply(500, "Something went wrong"))
    /\ UNCHANGED <<now, outbox, op>>

\* Lines 188-215: prisma.booking.update to CONFIRMED, after the transaction;
\* when it throws the handler answers 500 (line 276).
CreateBookingConfirm(p) ==
    /\ pc[p] = "confirm"
    /\ \/ /\ bookings' = [bookings EXCEPT ![local[p].booking] =
                             [@ EXCEPT !.status = "CONFIRMED", !.paymentId = local[p].booking]]
          /\ Continue(p, "email", local[p])
       \/ /\ UNCHANGED bookings
          /\ Return(p, Reply(500, "Something went wrong"))
    /\ UNCHANGED <<now, outbox, events, ticketTypes, tickets, op>>

\* A notification whose failure reaches the outer catch of line 276.
CreateBookingEmailUncaught(p) ==
    /\ pc[p] = "email"
    /\ \E sent \in BOOLEAN :
          /\ outbox' = IF sent THEN outbox \cup {local[p].booking} ELSE outbox
          /\ Return(p, IF sent
                         THEN ReplyWith(201, "Booking created successfully", local[p].booking)
                         ELSE Reply(500, "Something went wrong"))
    /\ UNCHANGED <<now, dbvars, op>>

\* Lines 217-275: the confirmation email inside try/catch (QR code, template
\* and sendEmail: sent, or one of them throws and the catch of line 263
\* swallows it), then the 201.  The handler awaits sendEmail (line 256), so
\* this step is taken when the provider's answer arrives; until then the
\* request stays at "email".
CreateBookingEmail(p) ==
    /\ pc[p] = "email"
    /\ \E sent \in BOOLEAN :
          /\ outbox' = IF sent THEN outbox \cup {local[p].booking} ELSE outbox
          /\ Return(p, ReplyWith(201, "Booking created successfully", local[p].booking))
    /\ UNCHANGED <<now, dbvars, op>>

\* ----------------------------------- PUT /api/bookings/[id] (cancelBooking)
\* The checks without the owner/admin test of lines 343-353.
CancelBookingChecksAnyActor(u, id, action) ==
    IF u = Null
      THEN Reply(401, "Unauthorized")
    ELSE IF action # "cancel"
      THEN Reply(400, "Invalid action")
    ELSE IF ~BookingExists(id)
      THEN Reply(404, "Booking not found")
    ELSE IF bookings[id].status = "CANCELLED"
      THEN Reply(400, "Booking is already cancelled")
    ELSE NoResponse

\* What lines 308-358 answer to user u asking `action` on booking id: the
\* rejection, or status Null when the handler goes on to the transaction.
CancelBookingChecks(u, id, action) ==
    IF u = Null
      THEN Reply(401, "Unauthorized")
    ELSE IF action # "cancel"
      THEN Reply(400, "Invalid action")
    ELSE IF ~BookingExists(id)
      THEN Reply(404, "Booking not found")
    ELSE IF ~(bookings[id].userId = u) /\ ~checkPermission(u, "admin:access")
      THEN Reply(403, "You don't have permission to cancel this booking")
    ELSE IF bookings[id].status = "CANCELLED"
      THEN Reply(400, "Booking is already cancelled")
    ELSE NoResponse

\* Lines 308-358: session, action, the booking read with its tickets, the
\* owner/admin check and the already-cancelled check.
CancelBookingStart(p) ==
    /\ pc[p] = "idle"
    /\ op' = [op EXCEPT ![p] = "cancelBooking"]
    /\ \E u \in Users \cup {Null}, id \in (DOMAIN bookings) \cup {NoSuchId},
          action \in {"cancel", "other"} :
          IF CancelBookingChecks(u, id, action).status # Null
            THEN Return(p, CancelBookingChecks(u, id, action))
          ELSE /\ Goto(p, "cancel", [ticketTypeCounts |-> TicketTypeCounts(id)])
               /\ session' = [session EXCEPT ![p] = u]
               /\ data' = [data EXCEPT ![p] = [id |-> id]]
    /\ UNCHANGED <<now, outbox, dbvars>>

\* Lines 361-394: the transaction: status CANCELLED and one increment per
\* ticket type, counted over the tickets read at line 327.
CancelBookingTx(p) ==
    /\ pc[p] = "cancel"
    /\ bookings' = [bookings EXCEPT ![data[p].id] = [@ EXCEPT !.status = "CANCELLED"]]
    /\ ticketTypes' = IncrementRemaining(ticketTypes, local[p].ticketTypeCounts)
    /\ Return(p, ReplyWith(200, "Booking cancelled successfully", data[p].id))
    /\ UNCHANGED <<now, outbox, events, tickets, op>>

\* ------------------------------------------- POST /api/tickets/verify (verify)
\* prisma.ticket.findFirst({ where: { OR: [{ id }, { ticketNumber }] } }): the
\* first ticket whose id or number matches, Null when none does.
FindFirstTicket(ticketId, ticketNumber) ==
    LET found == {t \in DOMAIN tickets :
                     t = ticketId \/ tickets[t].ticketNumber = ticketNumber}
    IN  IF found = {} THEN Null ELSE CHOOSE t \in found : \A o \in found : t <= o

\* The identifiers a verification may carry (data.ticketId, data.ticketNumber):
\* none, an id alone (of a ticket or of none), a number alone, the id and the
\* number of one ticket, and an id with the number of the ticket minted next.
VerifyInputs ==
    {[ticketId |-> id, ticketNumber |-> Null] : id \in (DOMAIN tickets) \cup {Null, NoSuchId}}
    \cup {[ticketId |-> Null, ticketNumber |-> tickets[t].ticketNumber] : t \in DOMAIN tickets}
    \cup {[ticketId |-> t, ticketNumber |-> tickets[t].ticketNumber] : t \in DOMAIN tickets}
    \cup {[ticketId |-> t - 1, ticketNumber |-> tickets[t].ticketNumber] :
              t \in (DOMAIN tickets) \ {1}}

\* The checks without the verifyOnly return of lines 279-293.
VerifyChecksNoDryRun(t, verifyOnly) ==
    IF t = Null
      THEN [Verdict(FALSE, "Ticket not found", Null, Null, "") EXCEPT !.status = 404]
    ELSE IF bookings[tickets[t].bookingId].status # "CONFIRMED"
      THEN Verdict(FALSE, "Ticket is not valid. Booking status", t, Null,
                   bookings[tickets[t].bookingId].status)
    ELSE IF events[bookings[tickets[t].bookingId].eventId].startDate < now
      THEN Verdict(FALSE, "Event has already passed", t, Null, "CONFIRMED")
    ELSE IF tickets[t].usedAt # Null
      THEN Verdict(FALSE, "Ticket has already been used", t, tickets[t].usedAt, "CONFIRMED")
    ELSE NoResponse

\* The checks with usedAt tested before the booking status and the event date.
VerifyChecksUsedFirst(t, verifyOnly) ==
    IF t = Null
      THEN [Verdict(FALSE, "Ticket not found", Null, Null, "") EXCEPT !.status = 404]
    ELSE IF tickets[t].usedAt # Null
      THEN Verdict(FALSE, "Ticket has already been used", t, tickets[t].usedAt, "CONFIRMED")
    ELSE IF bookings[tickets[t].bookingId].status # "CONFIRMED"
      THEN Verdict(FALSE, "Ticket is not valid. Booking status", t, Null,
                   bookings[tickets[t].bookingId].status)
    ELSE IF events[bookings[tickets[t].bookingId].eventId].startDate < now
      THEN Verdict(FALSE, "Event has already passed", t, Null, "CONFIRMED")
    ELSE IF verifyOnly
      THEN Verdict(TRUE, "Ticket is valid", t, Null, "CONFIRMED")
    ELSE NoResponse

\* What lines 215-293 answer for ticket t (Null: none found) at the instant
\* `now`: the verdict, or status Null when the handler goes on to mark the
\* ticket used.
VerifyChecks(t, verifyOnly) ==
    IF t = Null
      THEN [Verdict(FALSE, "Ticket not found", Null, Null, "") EXCEPT !.status = 404]
    ELSE IF bookings[tickets[t].bookingId].status # "CONFIRMED"
      THEN Verdict(FALSE, "Ticket is not valid. Booking status", t, Null,
                   bookings[tickets[t].bookingId].status)
    ELSE IF events[bookings[tickets[t].bookingId].eventId].startDate < now
      THEN Verdict(FALSE, "Event has already passed", t, Null, "CONFIRMED")
    ELSE IF tickets[t].usedAt # Null
      THEN Verdict(FALSE, "Ticket has already been used", t, tickets[t].usedAt, "CONFIRMED")
    ELSE IF verifyOnly
      THEN Verdict(TRUE, "Ticket is valid", t, Null, "CONFIRMED")
    ELSE NoResponse

\* The events whose scanner page sends the request: the page of event
\* params.eventId posts { ticketId, ticketNumber, eventId: params.eventId }.
ScannerEvents == {1, 2}

\* The request answered as a gate of the scanning event would: a ticket of
\* another event is turned away before the other checks.
VerifyRequestAtEvent(body, eventId, verifyOnly) ==
    LET t == FindFirstTicket(body.ticketId, body.ticketNumber)
    IN  IF t # Null /\ bookings[tickets[t].bookingId].eventId # eventId
          THEN Verdict(FALSE, "Ticket is not for this event", t, Null,
                       bookings[tickets[t].bookingId].status)
          ELSE VerifyChecks(t, verifyOnly)

\* Lines 184-293: what the handler answers to a body sent with eventId: the
\* ticket is looked up by data.ticketId / data.ticketNumber and checked;
\* data.eventId is never read.
VerifyRequest(body, eventId, verifyOnly) ==
    VerifyChecks(FindFirstTicket(body.ticketId, body.ticketNumber), verifyOnly)

\* Lines 164-293: session, capability, body, the ticket read with its booking
\* and event, and the checks on what was read.  `usedAt: new Date()` of line
\* 298 is taken here, when the update is issued.
VerifyStart(p) ==
    /\ pc[p] = "idle"
    /\ op' = [op EXCEPT ![p] = "verify"]
    /\ \E u \in Users \cup {Null} :
          IF u = Null
            THEN Return(p, Reply(401, "Unauthorized"))
          ELSE IF ~(checkPermission(u, "events:edit") \/ checkPermission(u, "admin:access"))
            THEN Return(p, Reply(403, "Forbidden"))
          ELSE \E body \in VerifyInputs, eventId \in ScannerEvents :
               IF body.ticketId = Null /\ body.ticketNumber = Null
                 THEN Return(p, Reply(400, "Ticket ID or ticket number is required"))
               ELSE \E verifyOnly \in BOOLEAN :
                    LET t == FindFirstTicket(body.ticketId, body.ticketNumber)
                    IN  IF VerifyRequest(body, eventId, verifyOnly).status # Null
                          THEN Return(p, VerifyRequest(body, eventId, verifyOnly))
                          ELSE /\ Goto(p, "markUsed", [ticket |-> t, usedAt |-> now])
                               /\ session' = [session EXCEPT ![p] = u]
                               /\ data' = [data EXCEPT ![p] = [verifyOnly |-> verifyOnly,
                                                              eventId |-> eventId]]
    /\ UNCHANGED <<now, outbox, dbvars>>

\* The update issued first and usedAt tested afterwards: the ticket is written
\* and the call answers already used when usedAt had been set meanwhile.
VerifyMarkUsedThenCheck(p) ==
    /\ pc[p] = "markUsed"
    /\ tickets' = [tickets EXCEPT ![local[p].ticket] = [@ EXCEPT !.usedAt = local[p].usedAt]]
    /\ Return(p, IF tickets[local[p].ticket].usedAt # Null
                   THEN Verdict(FALSE, "Ticket has already been used", local[p].ticket,
                                tickets[local[p].ticket].usedAt, "CONFIRMED")
                   ELSE Verdict(TRUE, "Ticket validated successfully", local[p].ticket,
                                local[p].usedAt, "CONFIRMED"))
    /\ UNCHANGED <<now, outbox, events, ticketTypes, bookings, op>>

\* Lines 296-314: prisma.ticket.update({ where: { id }, data: { usedAt } })
\* and the valid answer.
VerifyMarkUsed(p) ==
    /\ pc[p] = "markUsed"
    /\ tickets' = [tickets EXCEPT ![local[p].ticket] = [@ EXCEPT !.usedAt = local[p].usedAt]]
    /\ Return(p, Verdict(TRUE, "Ticket validated successfully", local[p].ticket,
                          local[p].usedAt, "CONFIRMED"))
    /\ UNCHANGED <<now, outbox, events, ticketTypes, bookings, op>>

\* ------------- PUT /api/events/[eventId]/ticket-types/[id] (updateTicketType)
\* Lines 57-101: session, capability, the ticket type read, the creator/admin
\* check, and quantityDifference computed from the quantity that was read.
UpdateTicketTypeStart(p) ==
    /\ pc[p] = "idle"
    /\ op' = [op EXCEPT ![p] = "updateTicketType"]
    /\ \E u \in Users \cup {Null}, id \in TypeIds \cup {NoSuchId},
          quantity \in 0..(InitQuantity + 1), price \in {Null, 3} :
          IF u = Null
            THEN Return(p, Reply(401, "Unauthorized"))
          ELSE IF ~checkPermission(u, "events:edit")
            THEN Return(p, Reply(403, "Forbidden"))
          ELSE IF ~TicketTypeExists(id)
            THEN Return(p, Reply(404, "Ticket type not found"))
          ELSE IF ~(events[ticketTypes[id].eventId].creatorId = u)
                  /\ ~checkPermission(u, "admin:access")
            THEN Return(p, Reply(403, "You don't have permission to update this ticket type"))
          ELSE /\ Goto(p, "update",
                       [quantityDifference |->
                           IF quantity # Null THEN quantity - ticketTypes[id].quantity ELSE 0])
               /\ session' = [session EXCEPT ![p] = u]
               /\ data' = [data EXCEPT ![p] = [id |-> id, quantity |-> quantity, price |-> price]]
    /\ UNCHANGED <<now, outbox, dbvars>>

\* An edit that also reprices the bookings: totalAmount of every booking is
\* set to the sum of the new prices of its tickets.
UpdateTicketTypeWriteRepricing(p) ==
    /\ pc[p] = "update"
    /\ ticketTypes' = [ticketTypes EXCEPT ![data[p].id] =
          [@ EXCEPT !.price = IF data[p].price # Null THEN data[p].price ELSE @,
                    !.quantity = IF data[p].quantity # Null THEN data[p].quantity ELSE @,
                    !.remaining = @ + local[p].quantityDifference]]
    /\ bookings' = [b \in DOMAIN bookings |->
          [bookings[b] EXCEPT !.totalAmount =
              Cardinality({tj \in TicketsOfBooking(b) \X (1..3) :
                              tj[2] <= ticketTypes'[tickets[tj[1]].ticketTypeId].price})]]
    /\ Return(p, ReplyWith(200, "Ticket type updated successfully", data[p].id))
    /\ UNCHANGED <<now, outbox, events, tickets, op>>

\* Lines 104-120: prisma.ticketType.update: price and quantity when given,
\* remaining: { increment: quantityDifference }.
UpdateTicketTypeWrite(p) ==
    /\ pc[p] = "update"
    /\ ticketTypes' = [ticketTypes EXCEPT ![data[p].id] =
          [@ EXCEPT !.price = IF data[p].price # Null THEN data[p].price ELSE @,
                    !.quantity = IF data[p].quantity # Null THEN data[p].quantity ELSE @,
                    !.remaining = @ + local[p].quantityDifference]]
    /\ Return(p, ReplyWith(200, "Ticket type updated successfully", data[p].id))
    /\ UNCHANGED <<now, outbox, events, bookings, tickets, op>>

\* ------------------------------------- DELETE /api/events/[eventId] (delete)
\* What lines 111-158 answer to user u asking to delete event e: the
\* rejection, or status Null when the handler goes on to prisma.event.delete.
DeleteEventChecks(u, e) ==
    IF u = Null
      THEN Reply(401, "Unauthorized")
    ELSE IF ~checkPermission(u, "events:delete")
      THEN Reply(403, "Forbidden")
    ELSE IF ~(e \in DOMAIN events)
      THEN Reply(404, "Event not found")
    ELSE IF ~(events[e].creatorId = u) /\ ~checkPermission(u, "admin:access")
      THEN Reply(403, "You don't have permission to delete this event")
    ELSE IF \E b \in DOMAIN bookings : bookings[b].eventId = e
      THEN Reply(400, "Cannot delete event with existing bookings")
    ELSE NoResponse

\* Lines 111-158: session, capability, the event read with its count of
\* bookings, the creator/admin check and the bookings check.
DeleteEventStart(p) ==
    /\ pc[p] = "idle"
    /\ op' = [op EXCEPT ![p] = "deleteEvent"]
    /\ \E u \in Users \cup {Null}, e \in EventIds \cup {NoSuchId} :
          IF DeleteEventChecks(u, e).status # Null
            THEN Return(p, DeleteEventChecks(u, e))
          ELSE /\ Goto(p, "delete", NoLocal)
               /\ session' = [session EXCEPT ![p] = u]
               /\ data' = [data EXCEPT ![p] = [id |-> e]]
    /\ UNCHANGED <<now, outbox, dbvars>>

\* prisma.event.delete throws when the event row is gone, when a booking
\* references the event (Booking.event, part_011 line 149, no onDelete) or
\* when a ticket references one of the ticket types the delete cascades to
\* (Ticket.ticketType, part_011 line 166).
DeleteThrows(e) ==
    \/ ~(e \in DOMAIN events)
    \/ \E b \in DOMAIN bookings : bookings[b].eventId = e
    \/ \E t \in DOMAIN tickets :
          /\ TicketTypeExists(tickets[t].ticketTypeId)
          /\ ticketTypes[tickets[t].ticketTypeId].eventId = e

\* Lines 160-165: prisma.event.delete({ where: { id } }): the event row and,
\* by onDelete: Cascade (part_011 line 128), its ticket types; when it throws
\* the handler answers 500 (line 167).
DeleteEventWrite(p) ==
    /\ pc[p] = "delete"
    /\ IF DeleteThrows(data[p].id)
         THEN /\ UNCHANGED <<events, ticketTypes>>
              /\ Return(p, Reply(500, "Something went wrong"))
         ELSE /\ events' = [e \in (DOMAIN events) \ {data[p].id} |-> events[e]]
              /\ ticketTypes' = [ty \in {x \in DOMAIN ticketTypes :
                                             ticketTypes[x].eventId # data[p].id} |->
                                    ticketTypes[ty]]
              /\ Return(p, ReplyWith(200, "Event deleted successfully", data[p].id))
    /\ UNCHANGED <<now, outbox, bookings, tickets, op>>

\* ------------------------------------------------------------ specifications
\* Slots that run the same handlers are taken in order: slot p starts once
\* slot p - 1 has (the slots name the requests by the order of their arrival).
Arrived(p) == pc[p] # "idle"

\* The booking request that slot p takes in this step names event e.
ForEvent(p, e) == pc'[p] = "check" => data'[p].eventId = e

\* The verification started in this step was sent by the scanner of event e.
AtScanner(p, e) == pc'[p] = "markUsed" => data'[p].eventId = e

\* One booking request and two cancellations, in any interleaving.
Next ==
    \/ \E p \in {1} : CreateBookingStart(p)
    \/ \E p \in {1} : CreateBookingCheck(p)
    \/ \E p \in {1} : CreateBookingTx(p)
    \/ \E p \in {1} : CreateBookingConfirm(p)
    \/ \E p \in {1} : CreateBookingEmail(p)
    \/ \E p \in {2} : CancelBookingStart(p)
    \/ \E p \in {3} : Arrived(2) /\ CancelBookingStart(p)
    \/ \E p \in {2, 3} : CancelBookingTx(p)

Spec == Init /\ [][Next]_vars

\* Two booking requests for event 1, in any interleaving.
NextRace ==
    \/ \E p \in {1} : CreateBookingStart(p) /\ ForEvent(p, 1)
    \/ \E p \in {2} : Arrived(1) /\ CreateBookingStart(p) /\ ForEvent(p, 1)
    \/ \E p \in {1, 2} : CreateBookingCheck(p)
    \/ \E p \in {1, 2} : CreateBookingTx(p)
    \/ \E p \in {1, 2} : CreateBookingConfirm(p)
    \/ \E p \in {1, 2} : CreateBookingEmail(p)

SpecRace == Init /\ [][NextRace]_vars

\* One booking request for event 1 and two verifications, in any
\* interleaving, while the clock runs.
NextVerify ==
    \/ Tick
    \/ \E p \in {1} : CreateBookingStart(p) /\ ForEvent(p, 1)
    \/ \E p \in {1} : CreateBookingCheck(p)
    \/ \E p \in {1} : CreateBookingTx(p)
    \/ \E p \in {1} : CreateBookingConfirm(p)
    \/ \E p \in {1} : CreateBookingEmail(p)
    \/ \E p \in {2} : VerifyStart(p) /\ AtScanner(p, 1)
    \/ \E p \in {3} : Arrived(2) /\ VerifyStart(p) /\ AtScanner(p, 1)
    \/ \E p \in {2, 3} : VerifyMarkUsed(p)

SpecVerify == Init /\ [][NextVerify]_vars

\* One booking request for event 1 that lists a single item, two
\* verifications and one cancellation, in any interleaving, while the clock
\* runs.
NextScan ==
    \/ Tick
    \/ \E p \in {1} : CreateBookingStart(p) /\ ForEvent(p, 1)
    \/ \E p \in {1} : CreateBookingCheck(p) /\ pc'[p] # "check"
    \/ \E p \in {1} : CreateBookingTx(p)
    \/ \E p \in {1} : CreateBookingConfirm(p)
    \/ \E p \in {1} : CreateBookingEmail(p)
    \/ \E p \in {2} : VerifyStart(p) /\ AtScanner(p, 1)
    \/ \E p \in {3} : Arrived(2) /\ VerifyStart(p) /\ AtScanner(p, 1)
    \/ \E p \in {2, 3} : VerifyMarkUsed(p)
    \/ \E p \in {4} : CancelBookingStart(p)
    \/ \E p \in {4} : CancelBookingTx(p)

SpecScan == Init /\ [][NextScan]_vars

\* One booking request for event 1, one ticket type edit and one
\* cancellation, in any interleaving.
NextEdit ==
    \/ \E p \in {1} : CreateBookingStart(p) /\ ForEvent(p, 1)
    \/ \E p \in {1} : CreateBookingCheck(p)
    \/ \E p \in {1} : CreateBookingTx(p)
    \/ \E p \in {1} : CreateBookingConfirm(p)
    \/ \E p \in {1} : CreateBookingEmail(p)
    \/ \E p \in {2} : UpdateTicketTypeStart(p)
    \/ \E p \in {2} : UpdateTicketTypeWrite(p)
    \/ \E p \in {3} : CancelBookingStart(p)
    \/ \E p \in {3} : CancelBookingTx(p)

SpecEdit == Init /\ [][NextEdit]_vars

\* One booking request for event 1 and two ticket type edits, in any
\* interleaving.
NextEditRace ==
    \/ \E p \in {1} : CreateBookingStart(p) /\ ForEvent(p, 1)
    \/ \E p \in {1} : CreateBookingCheck(p)
    \/ \E p \in {1} : CreateBookingTx(p)
    \/ \E p \in {1} : CreateBookingConfirm(p)
    \/ \E p \in {1} : CreateBookingEmail(p)
    \/ \E p \in {2} : UpdateTicketTypeStart(p)
    \/ \E p \in {3} : Arrived(2) /\ UpdateTicketTypeStart(p)
    \/ \E p \in {2, 3} : UpdateTicketTypeWrite(p)

SpecEditRace == Init /\ [][NextEditRace]_vars

\* Two booking requests for event 1 that list a single item each and two
\* cancellations, in any interleaving.
NextLedger ==
    \/ \E p \in {1} : CreateBookingStart(p) /\ ForEvent(p, 1)
    \/ \E p \in {2} : Arrived(1) /\ CreateBookingStart(p) /\ ForEvent(p, 1)
    \/ \E p \in {1, 2} : CreateBookingCheck(p) /\ pc'[p] # "check"
    \/ \E p \in {1, 2} : CreateBookingTx(p)
    \/ \E p \in {1, 2} : CreateBookingConfirm(p)
    \/ \E p \in {1, 2} : CreateBookingEmail(p)
    \/ \E p \in {3} : CancelBookingStart(p)
    \/ \E p \in {4} : Arrived(3) /\ CancelBookingStart(p)
    \/ \E p \in {3, 4} : CancelBookingTx(p)

SpecLedger == Init /\ [][NextLedger]_vars

\* One booking request and two event deletions, in any interleaving.
NextDelete ==
    \/ \E p \in {1} : CreateBookingStart(p)
    \/ \E p \in {1} : CreateBookingCheck(p)
    \/ \E p \in {1} : CreateBookingTx(p)
    \/ \E p \in {1} : CreateBookingConfirm(p)
    \/ \E p \in {1} : CreateBookingEmail(p)
    \/ \E p \in {2} : DeleteEventStart(p)
    \/ \E p \in {3} : Arrived(2) /\ DeleteEventStart(p)
    \/ \E p \in {2, 3} : DeleteEventWrite(p)

SpecDelete == Init /\ [][NextDelete]_vars

\* One booking request for event 1 and one cancellation.  Every database call
\* of the booking handler completes (weak fairness); the email provider's
\* answer, awaited at line 256 with no timeout (resend.emails.send), may never
\* arrive, so the step that ends the await carries no fairness.
NextNotify ==
    \/ \E p \in {1} : CreateBookingStart(p) /\ ForEvent(p, 1)
    \/ \E p \in {1} : CreateBookingCheck(p)
    \/ \E p \in {1} : CreateBookingTx(p)
    \/ \E p \in {1} : CreateBookingConfirm(p)
    \/ \E p \in {1} : CreateBookingEmail(p)
    \/ \E p \in {2} : CancelBookingStart(p)
    \/ \E p \in {2} : CancelBookingTx(p)

SpecNotify ==
    /\ Init
    /\ [][NextNotify]_vars
    /\ WF_vars(CreateBookingCheck(1))
    /\ WF_vars(CreateBookingTx(1))
    /\ WF_vars(CreateBookingConfirm(1))
    /\ WF_vars(CancelBookingTx(2))

\* Two booking requests for event 1 with no concurrency at all: the second
\* is issued after the first has returned.
NextSolo ==
    \/ \E p \in {1} : CreateBookingStart(p) /\ ForEvent(p, 1)
    \/ \E p \in {2} : pc[1] = "done" /\ CreateBookingStart(p) /\ ForEvent(p, 1)
    \/ \E p \in {1, 2} : CreateBookingCheck(p)
    \/ \E p \in {1, 2} : CreateBookingTx(p)
    \/ \E p \in {1, 2} : CreateBookingConfirm(p)
    \/ \E p \in {1, 2} : CreateBookingEmail(p)

SpecSolo == Init /\ [][NextSolo]_vars

\* One booking request that lists a single item and two verifications sent
\* by the scanners of events 1 and 2, in any interleaving, while the clock
\* runs.
NextGate ==
    \/ Tick
    \/ \E p \in {1} : CreateBookingStart(p)
    \/ \E p \in {1} : CreateBookingCheck(p) /\ pc'[p] # "check"
    \/ \E p \in {1} : CreateBookingTx(p)
    \/ \E p \in {1} : CreateBookingConfirm(p)
    \/ \E p \in {1} : CreateBookingEmail(p)
    \/ \E p \in {2} : VerifyStart(p)
    \/ \E p \in {3} : Arrived(2) /\ VerifyStart(p)
    \/ \E p \in {2, 3} : VerifyMarkUsed(p)

SpecGate == Init /\ [][NextGate]_vars

\* ------------------------------------------------------------------ claims
\* The tickets of booking b that are of ticket type ty.
TicketsOfType(b, ty) ==
    {t \in DOMAIN tickets : tickets[t].bookingId = b /\ tickets[t].ticketTypeId = ty}

\* Slot p holds a request of handler h that has returned status st.
Returned(p, h, st) == pc[p] = "done" /\ op[p] = h /\ response[p].status = st

\* C1: under any interleaving of concurrent booking requests, the remaining
\* count of a ticket type never becomes negative: the availability check and
\* the decrement are one atomic reserve.  Stated for the transaction of a
\* request that lists a single item, so that only the interleaving with
\* another request can take more than there is.
C1_RemainingNeverNegative ==
    [][\A p \in Slots :
          (/\ pc[p] = "tx" /\ pc'[p] = "confirm"
           /\ Len(local[p].ticketItems) = 1
           /\ \A ty \in DOMAIN ticketTypes : ticketTypes[ty].remaining >= 0)
              => \A ty \in DOMAIN ticketTypes : ticketTypes'[ty].remaining >= 0]_vars

\* C2: of any number of concurrent commit-mode verifications of one unused
\* ticket, exactly one is answered valid; no two slots hold the valid answer
\* of a commit for the same ticket.
C2_AtMostOneValidScan ==
    \A p, q \in Slots :
        (/\ p # q
         /\ Returned(p, "verify", 200) /\ response[p].message = "Ticket validated successfully"
         /\ Returned(q, "verify", 200) /\ response[q].message = "Ticket validated successfully")
            => response[p].ticket # response[q].ticket

\* C3: a booking request is all-or-nothing, the update to CONFIRMED included:
\* when no request is in flight, no booking is left PENDING with its tickets
\* and its decremented inventory.
C3_NoPendingWhenQuiescent ==
    (\A p \in Slots : pc[p] \in {"idle", "done"})
        => \A b \in DOMAIN bookings : bookings[b].status # "PENDING"

C5_Conservation ==
    \A ty \in DOMAIN ticketTypes :
        Cardinality({t \in DOMAIN tickets : tickets[t].ticketTypeId = ty})
            + ticketTypes[ty].remaining = ticketTypes[ty].quantity

\* C6: once usedAt of a ticket is set, no step clears it or writes another
\* instant over it.
C6_UsedAtMonotonic ==
    [][\A t \in DOMAIN tickets :
          tickets[t].usedAt # Null => tickets'[t].usedAt = tickets[t].usedAt]_vars

\* C7: a dry-run verification (verifyOnly) never changes a ticket, whatever
\* it answers: the step that reads and checks changes no ticket row, and no
\* later step of a request with verifyOnly does.
C7_DryRunLeavesUsedAt ==
    [][\A p \in Slots :
          (/\ pc'[p] # pc[p]
           /\ \/ pc[p] = "idle" /\ op'[p] = "verify"
              \/ pc[p] = "markUsed" /\ data[p].verifyOnly)
              => tickets' = tickets]_vars

\* C7 witness: a dry run answered valid for a ticket that a commit-mode
\* verification has marked used as well.
C7_Witness ==
    \E p, q \in Slots :
        /\ Returned(p, "verify", 200) /\ response[p].message = "Ticket is valid"
        /\ Returned(q, "verify", 200) /\ response[q].message = "Ticket validated successfully"
        /\ response[p].ticket = response[q].ticket
        /\ tickets[response[q].ticket].usedAt # Null

\* C8: the cancellation of a CONFIRMED booking sets it CANCELLED and adds to
\* the remaining of every ticket type the number of the booking's tickets of
\* that type (nothing for a type the booking has no ticket of).
C8_CancelReleasesPerType ==
    [][\A p \in Slots :
          (/\ pc[p] = "cancel" /\ pc'[p] = "done"
           /\ bookings[data[p].id].status = "CONFIRMED")
              => /\ response'[p].status = 200
                 /\ bookings'[data[p].id].status = "CANCELLED"
                 /\ \A ty \in DOMAIN ticketTypes :
                       ticketTypes'[ty].remaining =
                           ticketTypes[ty].remaining
                               + Cardinality(TicketsOfType(data[p].id, ty))]_vars

\* C8 witness: a cancelled booking that had been confirmed and holds two
\* tickets of type 1 and one of type 2, all back in the inventory.
C8_Witness ==
    \E p \in Slots :
        /\ Returned(p, "cancelBooking", 200)
        /\ bookings[response[p].detail].status = "CANCELLED"
        /\ bookings[response[p].detail].paymentId # Null
        /\ Cardinality(TicketsOfType(response[p].detail, 1)) = 2
        /\ Cardinality(TicketsOfType(response[p].detail, 2)) = 1
        /\ \A ty \in DOMAIN ticketTypes : ticketTypes[ty].remaining = ticketTypes[ty].quantity

\* C9: a cancellation issued after a cancellation of the same booking has
\* returned is rejected: it does not go on to the transaction.
C9_SecondCancelRejected ==
    [][\A p, q \in Slots :
          (/\ p # q
           /\ Returned(p, "cancelBooking", 200)
           /\ pc[q] = "idle" /\ pc'[q] = "cancel")
              => data'[q].id # response[p].detail]_vars

\* C10: concurrent cancellations of one booking release its inventory once:
\* at most one of them reports success.
C10_AtMostOneCancelSucceeds ==
    \A p, q \in Slots :
        (p # q /\ Returned(p, "cancelBooking", 200) /\ Returned(q, "cancelBooking", 200))
            => response[p].detail # response[q].detail

\* C11: every change of a booking's status is PENDING -> CONFIRMED or
\* CONFIRMED -> CANCELLED: no booking reaches REFUNDED and no PENDING booking
\* is moved to CANCELLED.
C11_StatusTransitions ==
    [][\A b \in DOMAIN bookings :
          bookings'[b].status # bookings[b].status
              => \/ bookings[b].status = "PENDING" /\ bookings'[b].status = "CONFIRMED"
                 \/ bookings[b].status = "CONFIRMED" /\ bookings'[b].status = "CANCELLED"]_vars

\* C12: verify applies its checks in the order ticket not found, booking
\* status not CONFIRMED, event start in the past, usedAt already set, and
\* answers with the first check that fails: the answer for a ticket that was
\* found is decided by the booking status before the event date, and by the
\* event date before usedAt; the handler goes on to mark the ticket used only
\* when every check passes.
C12_FirstFailingCheckWins ==
    [][\A p \in Slots :
          /\ (pc[p] = "idle" /\ op'[p] = "verify" /\ pc'[p] = "done"
                 /\ response'[p].ticket # Null) =>
                LET t == response'[p].ticket
                    b == tickets[t].bookingId
                    passed == events[bookings[b].eventId].startDate < now
                    used == tickets[t].usedAt # Null
                    r == response'[p]
                IN  /\ bookings[b].status # "CONFIRMED" =>
                          /\ r.message = "Ticket is not valid. Booking status"
                          /\ r.bookingStatus = bookings[b].status
                          /\ ~r.valid
                    /\ (bookings[b].status = "CONFIRMED" /\ passed) =>
                          r.message = "Event has already passed" /\ ~r.valid
                    /\ (bookings[b].status = "CONFIRMED" /\ ~passed /\ used) =>
                          r.message = "Ticket has already been used" /\ ~r.valid
                    /\ (bookings[b].status = "CONFIRMED" /\ ~passed /\ ~used) =>
                          r.message = "Ticket is valid" /\ r.valid
          /\ (pc[p] = "idle" /\ pc'[p] = "markUsed") =>
                LET t == local'[p].ticket
                    b == tickets[t].bookingId
                IN  /\ bookings[b].status = "CONFIRMED"
                    /\ ~(events[bookings[b].eventId].startDate < now)
                    /\ tickets[t].usedAt = Null]_vars

\* C12 witness: a verification answered with the booking status CANCELLED for
\* a ticket that is already used.
C12_Witness ==
    \E p \in Slots :
        /\ Returned(p, "verify", 200)
        /\ response[p].message = "Ticket is not valid. Booking status"
        /\ response[p].bookingStatus = "CANCELLED"
        /\ tickets[response[p].ticket].usedAt # Null

\* C13: a verification that answers an error or an invalid result
\* (unauthenticated, forbidden, no identifier, not found, wrong booking
\* status, event passed, already used) leaves usedAt of every ticket as it
\* was: the step in which such a call returns changes no usedAt, and usedAt
\* of a ticket changes only in the step of a call answered valid for it.
C13_InvalidVerifyLeavesUsedAt ==
    [][/\ \A p \in Slots :
             (pc[p] # "done" /\ pc'[p] = "done" /\ op'[p] = "verify" /\ ~response'[p].valid)
                 => \A t \in DOMAIN tickets : tickets'[t].usedAt = tickets[t].usedAt
       /\ \A t \in DOMAIN tickets :
             tickets'[t].usedAt # tickets[t].usedAt
                 => \E p \in Slots :
                       /\ pc[p] = "markUsed" /\ pc'[p] = "done"
                       /\ response'[p].valid /\ response'[p].ticket = t]_vars

\* C13 witness: a verification answered already used for a ticket whose
\* usedAt is still the instant an earlier verification wrote.
C13_Witness ==
    \E p, q \in Slots :
        /\ Returned(q, "verify", 200) /\ response[q].message = "Ticket validated successfully"
        /\ Returned(p, "verify", 200) /\ response[p].message = "Ticket has already been used"
        /\ response[p].ticket = response[q].ticket
        /\ response[p].detail = response[q].detail
        /\ tickets[response[q].ticket].usedAt = response[q].detail

\* C14: a booking request for an event that does not exist or is not
\* published is rejected without any change, and the rejection for an
\* existing unpublished event (NotPublished) can be told from the one for a
\* missing event (NotFound): the two answers differ in status or message.
C14_NotPublishedDistinct ==
    \A e \in DOMAIN events :
        ~events[e].isPublished =>
            /\ EventCheck(e).status \in {400, 403, 404, 409}
            /\ \/ EventCheck(e).status # EventCheck(NoSuchId).status
               \/ EventCheck(e).message # EventCheck(NoSuchId).message

\* C15: every ticket references a ticket type of the event of its booking: a
\* booking request that names a ticket type of another event mints nothing.
C15_TicketTypeOfBookedEvent ==
    \A t \in DOMAIN tickets :
        ticketTypes[tickets[t].ticketTypeId].eventId = bookings[tickets[t].bookingId].eventId

\* The units of ticket type ty that the items of a request ask for.
RequestedUnits(items, ty) ==
    Cardinality({ik \in (DOMAIN items) \X (1..MaxQty) :
                    /\ items[ik[1]].ticketTypeId = ty
                    /\ ik[2] <= items[ik[1]].quantity})

\* C16: the transaction of a booking request mints, for every ticket type,
\* as many tickets as its items ask for, all bound to the new booking and
\* unused, and decrements remaining of the type by the same number; the
\* tickets that were there stay as they were.
C16_MintsRequestedQuantities ==
    [][\A p \in Slots :
          (pc[p] = "tx" /\ pc'[p] = "confirm") =>
              LET minted == (DOMAIN tickets') \ (DOMAIN tickets)
                  items == local[p].ticketItems
              IN  /\ Len(bookings') = Len(bookings) + 1
                  /\ \A t \in minted :
                        tickets'[t].bookingId = Len(bookings') /\ tickets'[t].usedAt = Null
                  /\ \A t \in DOMAIN tickets : tickets'[t] = tickets[t]
                  /\ \A ty \in DOMAIN ticketTypes :
                        /\ Cardinality({t \in minted : tickets'[t].ticketTypeId = ty})
                              = RequestedUnits(items, ty)
                        /\ ticketTypes'[ty].remaining
                              = ticketTypes[ty].remaining - RequestedUnits(items, ty)
                  /\ Cardinality(minted)
                        = Cardinality({ik \in (DOMAIN items) \X (1..MaxQty) :
                                          ik[2] <= items[ik[1]].quantity})]_vars

\* C16 witness: a booking answered 201 that holds two tickets of type 1 and
\* one of type 2, with remaining of both types down by as many.
C16_Witness ==
    \E p \in Slots :
        /\ Returned(p, "createBooking", 201)
        /\ Cardinality(TicketsOfType(response[p].detail, 1)) = 2
        /\ Cardinality(TicketsOfType(response[p].detail, 2)) = 1
        /\ ticketTypes[1].remaining = ticketTypes[1].quantity - 2
        /\ ticketTypes[2].remaining = ticketTypes[2].quantity - 1

\* The amount of a list of validated items: the sum of price x quantity, the
\* price being the one stored with the item.
AmountOf(items) ==
    Cardinality({ikj \in (DOMAIN items) \X (1..MaxQty) \X (1..3) :
                    /\ ikj[2] <= items[ikj[1]].quantity
                    /\ ikj[3] <= items[ikj[1]].price})

\* C17: totalAmount of a booking is the sum over the requested items of the
\* ticket type price read when the item was checked, times the quantity, and
\* no later step changes it: the loop stores with every item the price the
\* ticket type has at that moment, the transaction writes the sum of price x
\* quantity of the stored items, and totalAmount of an existing booking stays
\* the same in every step.
C17_TotalAmountSnapshot ==
    [][/\ \A p \in Slots :
             /\ (pc[p] = "check" /\ pc'[p] \in {"check", "tx"} /\ local'[p] # local[p]) =>
                   LET it == local'[p].ticketItems[Len(local'[p].ticketItems)]
                   IN  it.price = ticketTypes[it.ticketTypeId].price
             /\ (pc[p] = "tx" /\ pc'[p] = "confirm") =>
                   bookings'[Len(bookings')].totalAmount = AmountOf(local[p].ticketItems)
       /\ \A b \in DOMAIN bookings :
             bookings'[b].totalAmount = bookings[b].totalAmount]_vars

\* C17 witness: a cancelled booking of two tickets of type 1 that still has
\* the amount of its booking time, 2, after the price of the type was edited
\* to 3.
C17_Witness ==
    \E b \in DOMAIN bookings :
        /\ bookings[b].status = "CANCELLED"
        /\ Cardinality(TicketsOfType(b, 1)) = 2
        /\ TicketsOfType(b, 2) = {}
        /\ bookings[b].totalAmount = 2
        /\ ticketTypes[1].price = 3

\* C18: no two tickets share a ticketNumber, and a generated number that
\* collides is detected and replaced by a fresh one instead of failing the
\* booking: no transaction that is about to run can throw on the numbers
\* drawn for it.
C18_UniqueNumbersWithRetry ==
    /\ \A t, o \in DOMAIN tickets : t # o => tickets[t].ticketNumber # tickets[o].ticketNumber
    /\ \A p \in Slots :
          pc[p] = "tx" => \A nums \in GeneratedNumbers(local[p].ticketItems) : ~MintThrows(nums)

\* C19: a failure of the confirmation notification never changes the outcome
\* of a booking request: whether the email is sent or not, the step after the
\* update to CONFIRMED answers 201 with the booking and changes no booking,
\* no ticket and no remaining.
C19_NotificationFailureSwallowed ==
    [][\A p \in Slots :
          (pc[p] = "email" /\ pc'[p] = "done") =>
              /\ response'[p].status = 201
              /\ response'[p].message = "Booking created successfully"
              /\ response'[p].detail = local[p].booking
              /\ UNCHANGED dbvars]_vars

\* C19 witness: a booking answered 201 whose email was not sent; it is
\* CONFIRMED, holds its tickets and its inventory is taken.
C19_Witness ==
    \E p \in Slots :
        /\ Returned(p, "createBooking", 201)
        /\ ~(response[p].detail \in outbox)
        /\ bookings[response[p].detail].status = "CONFIRMED"
        /\ TicketsOfBooking(response[p].detail) # {}
        /\ \A ty \in DOMAIN ticketTypes :
              ticketTypes[ty].remaining
                  = ticketTypes[ty].quantity - Cardinality(TicketsOfType(response[p].detail, ty))

\* C20: an edit of a ticket type's quantity from old to new changes remaining
\* by new - old, and an edit that would make remaining negative is rejected
\* or clamped: the write of an edit never takes remaining of its ticket type
\* from a non-negative value to a negative one.
C20_QuantityEditKeepsRemaining ==
    [][\A p \in Slots :
          (pc[p] = "update" /\ pc'[p] = "done") =>
              LET old == ticketTypes[data[p].id]
                  new == ticketTypes'[data[p].id]
              IN  /\ \/ new.remaining = old.remaining + (new.quantity - old.quantity)
                     \/ new.remaining = 0
                     \/ new = old
                  /\ old.remaining >= 0 => new.remaining >= 0]_vars

\* C21: the quantity edit is an atomic read-modify-write: under any
\* interleaving of edits with each other and with bookings, the write of an
\* edit leaves the number of sold units (quantity - remaining) of its ticket
\* type as it was.
C21_EditKeepsSoldUnits ==
    [][\A p \in Slots :
          (pc[p] = "update" /\ pc'[p] = "done") =>
              ticketTypes'[data[p].id].quantity - ticketTypes'[data[p].id].remaining
                  = ticketTypes[data[p].id].quantity - ticketTypes[data[p].id].remaining]_vars

\* C22: in every reachable state remaining <= quantity for every ticket type:
\* the release of a cancellation is capped at quantity, also when
\* cancellations are repeated or concurrent.
C22_RemainingAtMostQuantity ==
    \A ty \in DOMAIN ticketTypes : ticketTypes[ty].remaining <= ticketTypes[ty].quantity

\* The units of ticket type ty released by the cancellations that have
\* returned: for every cancellation answered 200, the tickets of type ty of
\* its booking.
ReleasedUnits(ty) ==
    Cardinality({pt \in Slots \X (DOMAIN tickets) :
                    /\ Returned(pt[1], "cancelBooking", 200)
                    /\ pt[2] \in TicketsOfType(response[pt[1]].detail, ty)})

\* C23: once every booking request and every cancellation has completed (no
\* quantity edit), remaining of a ticket type is its quantity, minus the
\* tickets issued for the type, plus the units released by cancellations.
C23_RemainingAccounting ==
    (\A p \in Slots : pc[p] \in {"idle", "done"}) =>
        \A ty \in DOMAIN ticketTypes :
            ticketTypes[ty].remaining
                = ticketTypes[ty].quantity
                  - Cardinality({t \in DOMAIN tickets : tickets[t].ticketTypeId = ty})
                  + ReleasedUnits(ty)

\* C23 witness: all requests have completed: two booking requests answered
\* 201 and two cancellations answered 200, one of them of a booking that
\* holds a ticket of type 1.
C23_Witness ==
    /\ \A p \in Slots : pc[p] \in {"idle", "done"}
    /\ \E p, q \in Slots :
          /\ p # q
          /\ Returned(p, "cancelBooking", 200) /\ Returned(q, "cancelBooking", 200)
          /\ TicketsOfType(response[p].detail, 1) # {}
          /\ Returned(1, "createBooking", 201) /\ Returned(2, "createBooking", 201)

\* C24: a cancellation by an actor who is neither the owner of the booking nor
\* a holder of the admin capability is rejected as forbidden and changes
\* nothing: the checks answer 403 for every such actor and booking, the step
\* that answers 403 leaves the bookings, the tickets and every remaining
\* unchanged, and only the owner or an admin gets to the transaction.
C24_ForbiddenCancelChangesNothing ==
    [][/\ \A u \in Users, b \in DOMAIN bookings :
             (bookings[b].userId # u /\ ~checkPermission(u, "admin:access"))
                 => CancelBookingChecks(u, b, "cancel").status = 403
       /\ \A p \in Slots :
             /\ (pc[p] = "idle" /\ pc'[p] = "done" /\ op'[p] = "cancelBooking"
                    /\ response'[p].status = 403) => UNCHANGED dbvars
             /\ (pc[p] = "idle" /\ pc'[p] = "cancel") =>
                   \/ bookings[data'[p].id].userId = session'[p]
                   \/ checkPermission(session'[p], "admin:access")]_vars

\* C24 witness: a cancellation answered 403 while the only booking, made by
\* the other user, is CONFIRMED with its inventory still taken.
C24_Witness ==
    \E p \in Slots :
        /\ Returned(p, "cancelBooking", 403)
        /\ Len(bookings) = 1
        /\ bookings[1].userId = 2
        /\ bookings[1].status = "CONFIRMED"
        /\ \E ty \in DOMAIN ticketTypes : ticketTypes[ty].remaining < ticketTypes[ty].quantity

\* C25: an event is never deleted while a booking references it: under any
\* interleaving of event deletions with a booking request, every booking
\* refers to an event that exists.
C25_NoBookingOfDeletedEvent ==
    \A b \in DOMAIN bookings : bookings[b].eventId \in DOMAIN events

\* C26: the result of createBooking does not wait on the confirmation
\* notification: once the booking is committed and the handler has reached the
\* dispatch, it eventually returns its 201 even if the dispatch never
\* completes.
C26_ReturnsWithoutNotification ==
    (pc[1] = "email") ~> Returned(1, "createBooking", 201)

\* C27: a request whose items name the same ticket type more than once is
\* accepted only if the sum of their quantities is at most remaining: with
\* requests served strictly one after another, remaining never goes below 0.
C27_DuplicateItemsSummed ==
    \A ty \in DOMAIN ticketTypes : ticketTypes[ty].remaining >= 0

\* C28: a booking that has become CANCELLED never changes status again: the
\* update to CONFIRMED of a booking request does not overwrite a cancellation
\* that ran after the request's transaction.
C28_CancelledIsFinal ==
    [][\A b \in DOMAIN bookings :
          bookings[b].status = "CANCELLED" => bookings'[b].status = "CANCELLED"]_vars

\* C29: usedAt is set only on a ticket whose booking is CONFIRMED at the
\* moment of the write: no step sets usedAt of a ticket whose booking is
\* CANCELLED.
C29_UsedOnlyWhileConfirmed ==
    [][\A t \in DOMAIN tickets :
          (tickets[t].usedAt = Null /\ tickets'[t].usedAt # Null)
              => bookings[tickets[t].bookingId].status = "CONFIRMED"]_vars

\* C30: the outcome of verify depends on the ticket identifiers, the stored
\* state and the mode, never on the eventId the scanner sends: in every state
\* two requests that differ only in eventId get the same answer (a verdict, or
\* the go-ahead to mark the ticket used).
C30_EventIdIgnored ==
    \A body \in VerifyInputs, verifyOnly \in BOOLEAN :
        \A e1, e2 \in ScannerEvents :
            VerifyRequest(body, e1, verifyOnly) = VerifyRequest(body, e2, verifyOnly)

\* A commit-mode verification sent by the scanner of one event has passed
\* every check for a ticket booked for another event.
C30_Witness ==
    \E p \in Slots :
        /\ pc[p] = "markUsed"
        /\ bookings[tickets[local[p].ticket].bookingId].eventId # data[p].eventId
        /\ bookings[tickets[local[p].ticket].bookingId].eventId \in ScannerEvents
====
